---- MODULE Spec2Model ----
(***************************************************************************)
(* Model of chatbot_app.py: a Streamlit script that is executed from the   *)
(* top once per rerun of a browser session.  One process-wide chat engine  *)
(* (st.cache_resource) serves every session; each session owns its         *)
(* st.session_state.messages list.                                         *)
(*                                                                         *)
(* The script of a session is interrupted by the Streamlit runtime when a  *)
(* new rerun request (a chat_input submission or a bare rerun) arrives     *)
(* while it is running: the new run starts, and the old script thread is   *)
(* stopped at its next st.* call.  An old thread that is inside            *)
(* chat_engine.chat therefore finishes that call (the engine records the   *)
(* exchange in its memory) and is stopped at st.markdown / st.error,       *)
(* before line 91 / 93 takes effect.                                       *)
(***************************************************************************)
EXTENDS Integers, Sequences, FiniteSets, TLC

\* ------------------------------------------------------------- bounds
NumSessions == 2     \* browser sessions
NumTexts    == 2     \* distinct question texts a user may type
MaxRequests == 2     \* submissions through st.chat_input, all sessions
MaxReruns   == 1     \* reruns without input of a session that has a history
MaxPassages == 1     \* passages a retrieval may return (0 = empty result)

Sessions == 1..NumSessions
Texts    == 1..NumTexts
None     == 0                      \* Python None: st.chat_input without a submission
Inputs   == Texts \cup {None}

\* ------------------------------------------------------------- values
\* message contents: the greeting, a typed text, an answer of the engine
Greeting     == [kind |-> "greeting", q |-> None, sq |-> <<>>, n |-> 0]
Text(q)      == [kind |-> "text", q |-> q, sq |-> <<>>, n |-> 0]
Answer(sq, n) == [kind |-> "answer", q |-> None, sq |-> sq, n |-> n]

Message(role, content) == [role |-> role, content |-> content]

\* an entry of the engine's conversation memory; sid records the session
\* whose chat call put it there
MemEntry(role, content, sid) == [role |-> role, content |-> content, sid |-> sid]

\* a chat_engine.chat call: q the message argument, ctx the chat history read
\* from the memory when the call starts, sq the standalone query, n the
\* number of retrieved passages; af records that the run was requested after
\* a failed turn of the session
NoCall == [q |-> None, ctx |-> <<>>, sq |-> <<>>, n |-> 0, af |-> FALSE]

CallStages == {"condense", "retrieve", "synthesize"}

VARIABLES
    secrets,       \* st.secrets: which of the two keys are configured
    cache,         \* st.cache_resource entry of get_chat_engine
    memory,        \* conversation memory of the cached chat engine
    initialised,   \* sessions with "messages" in st.session_state
    messages,      \* st.session_state.messages of each session
    pc,            \* position of each session's current script run
    call,          \* the chat_engine.chat call of the current run
    orphans,       \* chat calls of interrupted runs, still executing
    shown,         \* the error the session's latest run put on the page
    pending,       \* indices of user turns with no outcome yet
    stats          \* per session: submissions, their calls' outcomes, bare
                   \* reruns, runs stopped by a later request

vars == <<secrets, cache, memory, initialised, messages, pc, call, orphans,
          shown, pending, stats>>

\* ------------------------------------------------------------- helpers
Last(seq) == seq[Len(seq)]

RECURSIVE LastUser(_)
\* the most recent user message of a chat history (None if there is none)
LastUser(ctx) ==
    IF ctx = <<>> THEN None
    ELSE IF Last(ctx).role = "user" THEN Last(ctx).content.q
    ELSE LastUser(SubSeq(ctx, 1, Len(ctx) - 1))

Zero == [subs |-> 0, ok |-> 0, fail |-> 0, bare |-> 0, cut |-> 0]

RECURSIVE Total(_, _)
\* sum over the sessions of S of one counter of stats
Total(S, f) ==
    IF S = {} THEN 0
    ELSE LET s == CHOOSE x \in S : TRUE
         IN stats[s][f] + Total(S \ {s}, f)

\* ------------------------------------------------------------- the script
\* the check of line 17 written with "or": one key is enough to go on
KeysOK_Either == secrets.llama \/ secrets.gemini

\* line 17: both keys are present
KeysOK == secrets.llama /\ secrets.gemini

\* a cache that does not keep the None of the except branch: the function
\* body runs again on the next call
GetChatEngine_Retry(ok) ==
    IF cache = "engine" THEN cache ELSE IF ok THEN "engine" ELSE "none"

\* lines 26-63, 65: the value get_chat_engine returns, and st.cache_resource
\* keeps: the cached value if there is one, else the engine just built (ok)
\* or the None of the except branch
GetChatEngine(ok) ==
    IF cache = "unset" THEN (IF ok THEN "engine" ELSE "none") ELSE cache

\* lines 17-19, 61-63: the error the top of the script puts on the page
StartError(ok) ==
    IF ~KeysOK THEN "config"
    ELSE IF GetChatEngine(ok) = "none" THEN "load"
    ELSE "none"

\* lines 17, 67: the run reaches the chat section
Proceeds(ok) == KeysOK /\ GetChatEngine(ok) = "engine"

\* lines 70-72 without the test of line 69: every run seeds the history
SeedMessages_Always(s) == <<Message("assistant", Greeting)>>

\* lines 69-72: seed the history unless the session has one
SeedMessages(s) ==
    IF s \in initialised THEN messages[s]
    ELSE <<Message("assistant", Greeting)>>

\* line 76 without the test of line 75: whatever st.chat_input returned is
\* appended
AppendUser_Always(msgs, prompt) == Append(msgs, Message("user", Text(prompt)))

\* lines 75-76: a submitted prompt is appended as a user turn
AppendUser(msgs, prompt) ==
    IF prompt # None THEN Append(msgs, Message("user", Text(prompt))) ELSE msgs

\* the runtime stops the run in progress when a new request arrives: a run
\* inside chat_engine.chat (line 89) keeps executing that call on its thread
Interrupted(s) ==
    IF pc[s] \in CallStages
    THEN Append(orphans, [sid |-> s, pc |-> pc[s], c |-> call[s]])
    ELSE orphans

\* One rerun request of session s: a submission through st.chat_input
\* (prompt in Texts; the widget exists once a run has reached line 75) or a
\* rerun without input (page load, rerun command).  Lines 13-76.
Rerun(s, prompt, ok) ==
    /\ prompt # None => s \in initialised
    /\ prompt # None => Total(Sessions, "subs") < MaxRequests
    /\ (prompt = None /\ s \in initialised) => Total(Sessions, "bare") < MaxReruns
    /\ ok \/ (KeysOK /\ cache = "unset")
    /\ orphans' = Interrupted(s)
    /\ cache' = IF KeysOK THEN GetChatEngine(ok) ELSE cache
    /\ shown' = [shown EXCEPT ![s] = StartError(ok)]
    /\ IF Proceeds(ok)
       THEN /\ messages' = [messages EXCEPT ![s] = AppendUser(SeedMessages(s), prompt)]
            /\ initialised' = initialised \cup {s}
            /\ pc' = [pc EXCEPT ![s] = "display"]
            /\ call' = [call EXCEPT ![s] = [NoCall EXCEPT !.q = prompt, !.af = stats[s].fail >= 1]]
            /\ pending' = [pending EXCEPT ![s] =
                  IF prompt # None THEN @ \cup {Len(messages'[s])} ELSE @]
       ELSE /\ pc' = [pc EXCEPT ![s] = "idle"]
            /\ call' = [call EXCEPT ![s] = NoCall]
            /\ UNCHANGED <<messages, initialised, pending>>
    /\ stats' = [stats EXCEPT ![s] =
          LET st == IF pc[s] # "idle" THEN [@ EXCEPT !.cut = @ + 1] ELSE @
          IN IF prompt # None THEN [st EXCEPT !.subs = @ + 1]
             ELSE IF s \in initialised THEN [st EXCEPT !.bare = @ + 1]
             ELSE st]
    /\ UNCHANGED <<secrets, memory>>

\* lines 79-89 without the test of line 84: every run generates a response
Display_Unguarded(s) ==
    /\ pc[s] = "display"
    /\ pc' = [pc EXCEPT ![s] = "condense"]
    /\ call' = [call EXCEPT ![s] = [@ EXCEPT !.ctx = memory]]
    /\ UNCHANGED <<secrets, cache, memory, initialised, messages, orphans,
                   shown, pending, stats>>

\* lines 79-84: the history is rendered; a response is generated if the last
\* message is not the assistant's.  chat_engine.chat(prompt) starts by
\* reading the chat history from the engine's memory.
Display(s) ==
    /\ pc[s] = "display"
    /\ IF Last(messages[s]).role # "assistant"
       THEN /\ pc' = [pc EXCEPT ![s] = "condense"]
            /\ call' = [call EXCEPT ![s] = [@ EXCEPT !.ctx = memory]]
       ELSE /\ pc' = [pc EXCEPT ![s] = "idle"]
            /\ call' = [call EXCEPT ![s] = NoCall]
    /\ UNCHANGED <<secrets, cache, memory, initialised, messages, orphans,
                   shown, pending, stats>>

\* ------------------------------------------------------------- chat_engine.chat
\* chat_mode="condense_question": with no chat history the question is kept
\* as it is; otherwise the language model rewrites it against the history
\* (here: it is qualified by the most recent user message of the history)
Standalone(c) ==
    IF c.ctx = <<>> THEN <<c.q>> ELSE <<LastUser(c.ctx), c.q>>

\* condensation calls the language model only when there is a chat history
CallsBackend(stage, c) == stage = "condense" => c.ctx # <<>>

\* lines 89-90: response.response of a call that went through
Response(c) == Answer(c.sq, c.n)

\* the engine records the exchange in its memory when the call returns
Record(mem, c, sid) ==
    mem \o <<MemEntry("user", Text(c.q), sid),
             MemEntry("assistant", Response(c), sid)>>

\* outcome counters of the calls made for submissions
Count(st, c, f) == IF c.q # None THEN [st EXCEPT ![f] = @ + 1] ELSE st

\* the query engine asked to answer without the retrieval step
CondenseOk_NoRetrieval(s) ==
    /\ pc[s] = "condense"
    /\ call' = [call EXCEPT ![s] = [@ EXCEPT !.sq = Standalone(call[s])]]
    /\ pc' = [pc EXCEPT ![s] = "synthesize"]
    /\ UNCHANGED <<secrets, cache, memory, initialised, messages, orphans,
                   shown, pending, stats>>

\* chat_engine.chat: the question is condensed into the standalone query
CondenseOk(s) ==
    /\ pc[s] = "condense"
    /\ call' = [call EXCEPT ![s] = [@ EXCEPT !.sq = Standalone(call[s])]]
    /\ pc' = [pc EXCEPT ![s] = "retrieve"]
    /\ UNCHANGED <<secrets, cache, memory, initialised, messages, orphans,
                   shown, pending, stats>>

\* chat_engine.chat: the retriever answers the standalone query with n passages
RetrieveOk(s, n) ==
    /\ pc[s] = "retrieve"
    /\ call' = [call EXCEPT ![s] = [@ EXCEPT !.n = n]]
    /\ pc' = [pc EXCEPT ![s] = "synthesize"]
    /\ UNCHANGED <<secrets, cache, memory, initialised, messages, orphans,
                   shown, pending, stats>>

\* the answer written over the last turn instead of appended
AppendAssistant_Overwrite(msgs, c) ==
    [msgs EXCEPT ![Len(msgs)] = Message("assistant", Response(c))]

\* line 91: the answer is appended to the history
AppendAssistant(msgs, c) == Append(msgs, Message("assistant", Response(c)))

\* lines 89-91: the call returns, the answer is shown and appended
SynthesizeOk(s) ==
    /\ pc[s] = "synthesize"
    /\ memory' = Record(memory, call[s], s)
    /\ messages' = [messages EXCEPT ![s] = AppendAssistant(@, call[s])]
    /\ pending' = [pending EXCEPT ![s] = @ \ {Len(messages[s])}]
    /\ stats' = [stats EXCEPT ![s] = Count(@, call[s], "ok")]
    /\ pc' = [pc EXCEPT ![s] = "idle"]
    /\ call' = [call EXCEPT ![s] = NoCall]
    /\ UNCHANGED <<secrets, cache, initialised, orphans, shown>>

\* lines 92-93: a stage raises; the except branch shows the error
StageFail(s) ==
    /\ pc[s] \in CallStages
    /\ CallsBackend(pc[s], call[s])
    /\ shown' = [shown EXCEPT ![s] = "chat"]
    /\ pending' = [pending EXCEPT ![s] = @ \ {Len(messages[s])}]
    /\ stats' = [stats EXCEPT ![s] = Count(@, call[s], "fail")]
    /\ pc' = [pc EXCEPT ![s] = "idle"]
    /\ call' = [call EXCEPT ![s] = NoCall]
    /\ UNCHANGED <<secrets, cache, memory, initialised, messages, orphans>>

\* line 89: chat(prompt) is given no timeout; an external call that does not
\* answer keeps the run at line 89
StageHang(s) ==
    /\ pc[s] \in CallStages
    /\ CallsBackend(pc[s], call[s])
    /\ pc' = [pc EXCEPT ![s] = "hung"]
    /\ UNCHANGED <<secrets, cache, memory, initialised, messages, call,
                   orphans, shown, pending, stats>>

\* ------------------------------------------------------------- interrupted runs
Remove(seq, i) == SubSeq(seq, 1, i - 1) \o SubSeq(seq, i + 1, Len(seq))

\* what is left of the stages of a call that is at stage st, with n the
\* number of passages a retrieval still to come returns
Finish(st, c, n) ==
    LET c1 == IF st = "condense" THEN [c EXCEPT !.sq = Standalone(c)] ELSE c
    IN IF st = "synthesize" THEN c1 ELSE [c1 EXCEPT !.n = n]

\* the call of an interrupted run returns: the exchange is in the engine's
\* memory; the thread is stopped at st.markdown (line 90), before line 91
OrphanReturn(i, n) ==
    /\ orphans[i].pc = "synthesize" => n = orphans[i].c.n
    /\ memory' = Record(memory, Finish(orphans[i].pc, orphans[i].c, n), orphans[i].sid)
    /\ stats' = [stats EXCEPT ![orphans[i].sid] = Count(@, orphans[i].c, "ok")]
    /\ orphans' = Remove(orphans, i)
    /\ UNCHANGED <<secrets, cache, initialised, messages, pc, call, shown,
                   pending>>

\* the call raises: the thread is stopped at st.error (line 93), which shows
\* nothing
OrphanRaise(i) ==
    /\ \/ orphans[i].pc # "condense"
       \/ CallsBackend(orphans[i].pc, orphans[i].c)
    /\ stats' = [stats EXCEPT ![orphans[i].sid] = Count(@, orphans[i].c, "fail")]
    /\ orphans' = Remove(orphans, i)
    /\ UNCHANGED <<secrets, cache, memory, initialised, messages, pc, call,
                   shown, pending>>

\* ------------------------------------------------------------- specification
Init ==
    /\ secrets \in [llama : BOOLEAN, gemini : BOOLEAN]
    /\ cache = "unset"
    /\ memory = <<>>
    /\ initialised = {}
    /\ messages = [s \in Sessions |-> <<>>]
    /\ pc = [s \in Sessions |-> "idle"]
    /\ call = [s \in Sessions |-> NoCall]
    /\ orphans = <<>>
    /\ shown = [s \in Sessions |-> "none"]
    /\ pending = [s \in Sessions |-> {}]
    /\ stats = [s \in Sessions |-> Zero]

Step(s) ==
    \/ Display(s)
    \/ CondenseOk(s)
    \/ \E n \in 0..MaxPassages : RetrieveOk(s, n)
    \/ SynthesizeOk(s)
    \/ StageFail(s)
    \/ StageHang(s)

OrphanNext ==
    \/ \E i \in DOMAIN orphans, n \in 0..MaxPassages : OrphanReturn(i, n)
    \/ \E i \in DOMAIN orphans : OrphanRaise(i)

Next ==
    \/ \E s \in Sessions, prompt \in Inputs, ok \in BOOLEAN : Rerun(s, prompt, ok)
    \/ \E s \in Sessions : Step(s)
    \/ OrphanNext

Spec == Init /\ [][Next]_vars

\* the script thread of a run and the threads of interrupted runs keep
\* running; nothing obliges a user to send a request
FairSpec == Spec /\ \A s \in Sessions : WF_vars(Step(s)) /\ WF_vars(OrphanNext)

\* ------------------------------------------------------------- properties
IsPrefix(a, b) == Len(a) <= Len(b) /\ SubSeq(b, 1, Len(a)) = a

OrphansOf(s) == {i \in DOMAIN orphans : orphans[i].sid = s}

\* C1: the history of a session holds the greeting, two turns for every
\* submission whose engine call returned and one turn for every submission
\* whose engine call raised (stated of sessions at rest, all of whose
\* requests were submissions and all of whose calls have ended)
C1_LengthBySubmission ==
    \A s \in initialised :
        (/\ pc[s] = "idle"
         /\ OrphansOf(s) = {}
         /\ stats[s].bare = 0
         /\ stats[s].subs = stats[s].ok + stats[s].fail)
        => Len(messages[s]) = 1 + 2 * stats[s].ok + stats[s].fail

\* C2: a step in which the engine call of a submission fails surfaces the
\* chat error, leaves the history as it was with a user turn last, and
\* leaves the session waiting for input
C2_FailureSurfaced ==
    [][\A s \in Sessions :
        stats'[s].fail > stats[s].fail
        => /\ shown'[s] = "chat"
           /\ pc'[s] = "idle"
           /\ messages'[s] = messages[s]
           /\ Last(messages'[s]).role = "user"]_vars

\* C3: at most one user turn of a session is without an outcome, and it is
\* the last turn of the history
C3_SinglePending ==
    \A s \in Sessions :
        /\ Cardinality(pending[s]) <= 1
        /\ pending[s] \subseteq {Len(messages[s])}

\* C4: the chat history a session's chat call condenses against holds only
\* exchanges of that session
C4_NoSharing ==
    \A s \in Sessions :
        pc[s] \in CallStages
        => \A i \in DOMAIN call[s].ctx : call[s].ctx[i].sid = s

\* C5: every step leaves the history of every session a prefix of its next
\* value: turns are appended, never edited, reordered or deleted
C5_AppendOnly ==
    [][\A s \in Sessions : IsPrefix(messages[s], messages'[s])]_vars

\* a history that grew across a failed turn and a rerun without input
C5_Witness ==
    \E s \in Sessions :
        /\ Len(messages[s]) >= 3
        /\ stats[s].fail >= 1
        /\ stats[s].bare >= 1

\* C6: a session either has no history yet or has one that starts with the
\* greeting, which occurs in it exactly once, and that holds a user turn for
\* every submission of the session (it was never seeded again)
C6_GreetingOnce ==
    \A s \in Sessions :
        IF s \in initialised
        THEN /\ Len(messages[s]) >= 1
             /\ messages[s][1] = Message("assistant", Greeting)
             /\ \A i \in 2..Len(messages[s]) : messages[s][i].content.kind # "greeting"
             /\ Cardinality({i \in DOMAIN messages[s] : messages[s][i].role = "user"})
                  = stats[s].subs
        ELSE messages[s] = <<>>

\* a session whose script was rerun without input after its first exchange
C6_Witness ==
    \E s \in initialised :
        /\ stats[s].bare >= 1
        /\ Len(messages[s]) >= 3
        /\ pc[s] = "idle"

\* C7: with a key missing no engine is built, no history exists, no input
\* is accepted, no chat call is made, and a run shows the configuration error
C7_MissingKey ==
    ~(secrets.llama /\ secrets.gemini)
    => /\ cache = "unset"
       /\ initialised = {}
       /\ memory = <<>>
       /\ orphans = <<>>
       /\ \A s \in Sessions :
            /\ messages[s] = <<>>
            /\ pc[s] = "idle"
            /\ stats[s] = Zero
            /\ shown[s] \in {"none", "config"}

\* one key present and one missing, and both sessions have run the script
C7_Witness ==
    /\ secrets.llama
    /\ ~secrets.gemini
    /\ \A s \in Sessions : shown[s] = "config"

\* no turn of any session has been processed
NoTurn ==
    /\ initialised = {}
    /\ memory = <<>>
    /\ orphans = <<>>
    /\ \A s \in Sessions :
         /\ messages[s] = <<>>
         /\ pc[s] = "idle"
         /\ stats[s] = Zero
         /\ shown[s] \in {"none", "load"}

\* C8: once construction has failed the engine stays absent (no rerun and
\* no session builds it again), and while it is absent no turn is processed
\* and a run shows the loading error
C8_ConstructionFatal ==
    [][/\ cache = "none" => cache' = "none"
       /\ cache' = "none" => NoTurn']_vars

\* construction failed and a later session ran the script too
C8_Witness ==
    /\ cache = "none"
    /\ \A s \in Sessions : shown[s] = "load"

\* the calls of session s that return in a step: the call of its current
\* run, or the call of one of its interrupted runs
ReturnedCalls(s) ==
    IF stats'[s].ok = stats[s].ok THEN {}
    ELSE IF pc[s] = "synthesize" /\ pc'[s] = "idle" /\ orphans' = orphans
         THEN {call[s]}
         ELSE {orphans[i].c : i \in {j \in OrphansOf(s) : orphans' = Remove(orphans, j)}}

\* C9: when the engine call of a submission made after a failed turn of its
\* session returns, exactly one assistant turn is appended to the history,
\* and it answers the text of that submission
C9_UsableAfterFailure ==
    [][\A s \in Sessions : \A c \in ReturnedCalls(s) :
        c.af => /\ Len(messages'[s]) = Len(messages[s]) + 1
                /\ Last(messages'[s]).role = "assistant"
                /\ Last(Last(messages'[s]).content.sq) = c.q]_vars

\* C10: a session whose turn is in a stage of the engine call eventually
\* waits for input again, with an answer appended or the chat error shown
C10_LeavesStages ==
    \A s \in Sessions :
        (pc[s] \in CallStages)
        ~> (/\ pc[s] = "idle"
            /\ s \in initialised
            /\ Last(messages[s]).role = "assistant" \/ shown[s] = "chat")

\* an assistant turn other than the greeting is appended to the history of s
AssistantAppended(s) ==
    /\ s \in initialised
    /\ Len(messages'[s]) > Len(messages[s])
    /\ Last(messages'[s]).role = "assistant"

C12_FirstQuestionUnchanged ==
    \A s \in Sessions :
        (/\ pc[s] \in {"retrieve", "synthesize"}
         /\ call[s].q # None
         /\ Len(messages[s]) = 2)
        => call[s].sq = <<call[s].q>>

\* the user and assistant turns of a chat history, without the session tag
Turns(ctx) == [i \in DOMAIN ctx |-> Message(ctx[i].role, ctx[i].content)]

\* the turns of the history of s between the greeting and the last turn
PriorTurns(s) == SubSeq(messages[s], 2, Len(messages[s]) - 1)

\* C14: the chat history a chat call of a session condenses against is the
\* turns recorded in the history of that session before the question at its
\* tail, in the same order (stated of sessions none of whose runs was
\* stopped by a later request)
C14_ContextIsHistory ==
    \A s \in Sessions :
        (pc[s] \in CallStages /\ stats[s].cut = 0)
        => Turns(call[s].ctx) = PriorTurns(s)

\* C15: the argument of a chat call of a session is the text of the user
\* turn at the tail of its history (stated of sessions none of whose runs
\* was stopped by a later request)
C15_ArgumentIsTail ==
    \A s \in Sessions :
        (pc[s] \in CallStages /\ stats[s].cut = 0)
        => /\ call[s].q # None
           /\ Last(messages[s]) = Message("user", Text(call[s].q))

\* C16: every assistant turn of a history other than the greeting at its
\* head immediately follows a user turn
C16_NoAdjacentAssistant ==
    \A s \in Sessions : \A i \in 2..Len(messages[s]) :
        messages[s][i].role = "assistant" => messages[s][i - 1].role = "user"

\* a history with an answer that a rerun without input produced for a turn
\* left unanswered by a failed attempt
C16_Witness ==
    \E s \in Sessions :
        /\ Len(messages[s]) >= 3
        /\ Last(messages[s]).role = "assistant"
        /\ stats[s].fail >= 1
        /\ stats[s].bare >= 1
        /\ stats[s].cut = 0

\* a run of s without input, not yet past line 84
BareRun(s) == pc[s] = "display" /\ call[s].q = None

\* C17: while the last turn of a session is the assistant's, a step that
\* is not a submission of that session (a rerun without input and the run
\* it starts, any number of times) leaves its history as it is and does not
\* enter chat_engine.chat
C17_BareRerunNoEffect ==
    [][\A s \in initialised :
        (Last(messages[s]).role = "assistant" /\ stats'[s].subs = stats[s].subs)
        => /\ messages'[s] = messages[s]
           /\ pc'[s] \notin CallStages]_vars

\* a rerun without input, after an answered exchange, has reached line 84
C17_Witness ==
    \E s \in initialised :
        /\ BareRun(s)
        /\ Len(messages[s]) >= 3
        /\ Last(messages[s]).role = "assistant"
        /\ stats[s].bare >= 1

====
